---- MODULE Spec2Model ----
(***************************************************************************)
(* Model of the reverse-geocoding dashboard (src/app.py): the sidebar      *)
(* configuration that is re-evaluated on every script run, the start       *)
(* handler with its guards, the row-by-row batch loop and the construction *)
(* of the result table.                                                    *)
(*                                                                         *)
(* Degrees are integers in ten-thousandths of a degree (90.0001 is 900001).*)
(* Time is counted in ticks, TicksPerSecond ticks to the second.           *)
(***************************************************************************)
EXTENDS Integers, Sequences, FiniteSets, TLC

\* ------------------------------------------------------------------ bounds
MaxRows == 3          \* rows of a table handed to the batch
MaxSessionRows == 1   \* rows of a table uploaded during a sidebar session
MaxLatency == 2       \* longest provider round trip, in ticks
TicksPerSecond == 2   \* resolution of the clock

\* ------------------------------------------------------- program constants
RATE_LIMIT == 1       \* BaseGeocodingClient.RATE_LIMIT, seconds

PROVIDERS == <<"LocationIQ", "Google Maps", "OpenStreetMap (Nominatim)">>
ProviderSet == {PROVIDERS[i] : i \in 1..Len(PROVIDERS)}
KeyedProviders == {"LocationIQ", "Google Maps"}

\* ------------------------------------------------------------- raw cells
\* A cell of the uploaded table as the loop reads it: a number, a float
\* NaN / infinity, None, an integer too large for a float, or a string
\* (a sequence of one-character strings).
Num(v) == [kind |-> "num", num |-> v, text |-> <<>>]
Str(s) == [kind |-> "str", num |-> 0, text |-> s]
NaN == [kind |-> "nan", num |-> 0, text |-> <<>>]
PosInf == [kind |-> "inf", num |-> 1, text |-> <<>>]
NegInf == [kind |-> "inf", num |-> -1, text |-> <<>>]
PyNone == [kind |-> "none", num |-> 0, text |-> <<>>]
BigInt == [kind |-> "bigint", num |-> 0, text |-> <<>>]

\* ------------------------------------------------------------ float(x)
Digits == <<"0", "1", "2", "3", "4", "5", "6", "7", "8", "9">>
IsDigit(c) == \E d \in 1..10 : Digits[d] = c
DigitVal(c) == (CHOOSE d \in 1..10 : Digits[d] = c) - 1
IsSpace(c) == c = " "

RECURSIVE LStrip(_)
LStrip(s) == IF s # <<>> /\ IsSpace(Head(s)) THEN LStrip(Tail(s)) ELSE s

RECURSIVE RStrip(_)
RStrip(s) ==
    IF s # <<>> /\ IsSpace(s[Len(s)]) THEN RStrip(SubSeq(s, 1, Len(s) - 1)) ELSE s

Lower(c) ==
    CASE c = "N" -> "n" [] c = "A" -> "a" [] c = "I" -> "i" [] c = "F" -> "f"
      [] OTHER -> c

\* Value of a digit string read as an integer.
RECURSIVE IntOf(_)
IntOf(s) == IF s = <<>> THEN 0 ELSE 10 * IntOf(SubSeq(s, 1, Len(s) - 1)) + DigitVal(s[Len(s)])

\* Value of a digit string read as a fraction, in ten-thousandths.
FracOf(s) ==
    LET d(i) == IF i <= Len(s) THEN DigitVal(s[i]) ELSE 0
    IN  1000 * d(1) + 100 * d(2) + 10 * d(3) + d(4)

FloatFail == [ok |-> FALSE, cls |-> "none", val |-> 0]
Finite(v) == [ok |-> TRUE, cls |-> "finite", val |-> v]
FloatNaN == [ok |-> TRUE, cls |-> "nan", val |-> 0]
FloatInf(sign) == [ok |-> TRUE, cls |-> "inf", val |-> sign]

\* float() of a string: surrounding blanks are dropped, then an optional
\* sign, then "nan", "inf", "infinity" in any case, or decimal digits with
\* at most one point and at least one digit.  Anything else is ValueError.
ParseFloatText(s) ==
    LET t == RStrip(LStrip(s))
        signed == t # <<>> /\ Head(t) \in {"-", "+"}
        sign == IF signed /\ Head(t) = "-" THEN -1 ELSE 1
        body == IF signed THEN Tail(t) ELSE t
        low == [i \in 1..Len(body) |-> Lower(body[i])]
        dots == {i \in 1..Len(body) : body[i] = "."}
        dot == IF dots = {} THEN Len(body) + 1 ELSE CHOOSE i \in dots : TRUE
        ipart == SubSeq(body, 1, dot - 1)
        fpart == SubSeq(body, dot + 1, Len(body))
    IN  IF low = <<"n", "a", "n">> THEN FloatNaN
        ELSE IF low \in {<<"i", "n", "f">>, <<"i", "n", "f", "i", "n", "i", "t", "y">>}
            THEN FloatInf(sign)
        ELSE IF /\ Cardinality(dots) <= 1
                /\ Len(ipart) + Len(fpart) >= 1
                /\ \A i \in 1..Len(ipart) : IsDigit(ipart[i])
                /\ \A i \in 1..Len(fpart) : IsDigit(fpart[i])
            THEN Finite(sign * (10000 * IntOf(ipart) + FracOf(fpart)))
        ELSE FloatFail

\* float(x) as the validator calls it; ok = FALSE stands for the exception
\* (TypeError for None, OverflowError for a huge int, ValueError for text).
PyFloat(x) ==
    CASE x.kind = "num" -> Finite(x.num)
      [] x.kind = "nan" -> FloatNaN
      [] x.kind = "inf" -> FloatInf(x.num)
      [] x.kind = "str" -> ParseFloatText(x.text)
      [] OTHER -> FloatFail

\* a <= x <= b on floats: every comparison with NaN is false.
FloatBetween(a, x, b) ==
    CASE x.cls = "finite" -> a <= x.val /\ x.val <= b
      [] OTHER -> FALSE

\* A validator whose range check leaves the bounds out.
validate_coordinate_values_open(lat, lon) ==
    LET flat == PyFloat(lat)
        flon == PyFloat(lon)
    IN  IF ~flat.ok \/ ~flon.ok
        THEN [is_valid |-> FALSE, status |-> "Invalid"]
        ELSE IF FloatBetween(-90 * 10000 + 1, flat, 90 * 10000 - 1)
                /\ FloatBetween(-180 * 10000 + 1, flon, 180 * 10000 - 1)
            THEN [is_valid |-> TRUE, status |-> "Valid"]
            ELSE [is_valid |-> FALSE, status |-> "Out of range"]

validate_coordinate_values(lat, lon) ==
    LET flat == PyFloat(lat)
        flon == PyFloat(lon)
    IN  IF ~flat.ok \/ ~flon.ok
        THEN [is_valid |-> FALSE, status |-> "Invalid"]
        ELSE IF FloatBetween(-90 * 10000, flat, 90 * 10000)
                /\ FloatBetween(-180 * 10000, flon, 180 * 10000)
            THEN [is_valid |-> TRUE, status |-> "Valid"]
            ELSE [is_valid |-> FALSE, status |-> "Out of range"]

\* ------------------------------------------------------------ providers
NoClient == [cls |-> "None", api_key |-> ""]
Unsupported == [cls |-> "ValueError", api_key |-> ""]

get_client(provider, api_key) ==
    CASE provider = "LocationIQ" -> [cls |-> "LocationIQClient", api_key |-> api_key]
      [] provider = "Google Maps" -> [cls |-> "GoogleMapsClient", api_key |-> api_key]
      [] provider = "OpenStreetMap (Nominatim)" -> [cls |-> "OpenStreetMapClient", api_key |-> ""]
      [] OTHER -> Unsupported

\* What one HTTP exchange can come to: a 200 with a complete address, a 200
\* whose body reports no result, a non-200 status, or a transport error.
HttpOutcomes == {"full", "zero_results", "http_error", "exception"}

NoResult == [ok |-> FALSE, street1 |-> "", street2 |-> "", city |-> "", state |-> "",
             postal |-> "", country |-> "", address |-> ""]

EmptyAddress == [NoResult EXCEPT !.ok = TRUE]

\* The display name the service holds for a coordinate.
DisplayName(lat, lon) ==
    IF PyFloat(lat).ok /\ PyFloat(lat).cls = "finite" /\ PyFloat(lat).val < 45 * 10000
    THEN "12 Marina Rd, Lagos" ELSE "North Pole Station"

FullAddress(lat, lon) ==
    [ok |-> TRUE, street1 |-> "Marina Rd", street2 |-> "Island", city |-> "Lagos",
     state |-> "Lagos", postal |-> "101001", country |-> "Nigeria",
     address |-> DisplayName(lat, lon)]

\* reverse_geocode of the three clients; ok = FALSE stands for None.
reverse_geocode(client, lat, lon, http) ==
    IF client.cls = "GoogleMapsClient"
    THEN CASE http = "full" -> FullAddress(lat, lon)
           [] OTHER -> NoResult
    ELSE CASE http = "full" -> FullAddress(lat, lon)
           [] http = "zero_results" -> EmptyAddress
           [] OTHER -> NoResult

\* ------------------------------------------------------- accumulator
COLUMNS == {"Latitude", "Longitude", "Street1", "Street2", "City", "State",
            "Postal Code", "Country", "Full Address", "Status"}

AddressColumns == {"Street1", "Street2", "City", "State", "Postal Code",
                   "Country", "Full Address"}

initialize_processed_data == [c \in COLUMNS |-> <<>>]

get_error_record ==
    [c \in AddressColumns \cup {"Status"} |->
        CASE c = "State" -> "Not Available"
          [] c = "Status" -> "Error"
          [] OTHER -> ""]

\* A rejection record that ignores the reason it is given.
get_coordinate_error_record_default(reason) ==
    [c \in AddressColumns \cup {"Status"} |->
        CASE c = "State" -> "Not Available"
          [] c = "Status" -> "Invalid"
          [] OTHER -> ""]

get_coordinate_error_record(reason) ==
    [c \in AddressColumns \cup {"Status"} |->
        CASE c = "State" -> "Not Available"
          [] c = "Status" -> reason
          [] OTHER -> ""]

\* for k, v in err.items(): processed_data[k].append(v)
AppendRecord(pd, rec) ==
    [c \in COLUMNS |-> IF c \in DOMAIN rec THEN Append(pd[c], rec[c]) ELSE pd[c]]

\* The success branch: the seven mapped fields, then Latitude, Longitude
\* and Status.
AppendSuccess(pd, lat, lon, result) ==
    [c \in COLUMNS |->
        CASE c = "Street1" -> Append(pd[c], result.street1)
          [] c = "Street2" -> Append(pd[c], result.street2)
          [] c = "City" -> Append(pd[c], result.city)
          [] c = "State" -> Append(pd[c], result.state)
          [] c = "Postal Code" -> Append(pd[c], result.postal)
          [] c = "Country" -> Append(pd[c], result.country)
          [] c = "Full Address" -> Append(pd[c], result.address)
          [] c = "Latitude" -> Append(pd[c], lat)
          [] c = "Longitude" -> Append(pd[c], lon)
          [] c = "Status" -> Append(pd[c], "Success")]

\* ------------------------------------------------------------ the table
IsNA(x) == x.kind \in {"nan", "none"}

\* validate_coordinates: number of rows whose two cells are both present.
validate_coordinates(table) ==
    Cardinality({i \in 1..Len(table) : ~IsNA(table[i].lat) /\ ~IsNA(table[i].lon)})

NoFrame == [built |-> FALSE, columns |-> <<>>, nrows |-> 0, ids |-> <<>>,
            data |-> initialize_processed_data]

\* prepare_output_dataframe: pandas refuses column lists of unequal length
\* and refuses to insert a column whose name is already present; built =
\* FALSE stands for the ValueError.
prepare_output_dataframe(table, pd, names) ==
    LET lens == {Len(pd[c]) : c \in COLUMNS}
        afterId == COLUMNS \cup {names.id}
        afterLat == afterId \cup {names.lat}
    IN  IF Cardinality(lens) # 1 THEN NoFrame
        ELSE IF names.id \in COLUMNS \/ names.lat \in afterId \/ names.lon \in afterLat
            THEN NoFrame
        ELSE [built |-> TRUE,
              columns |-> <<names.id, names.lat, names.lon, "Latitude", "Longitude",
                            "Street1", "Street2", "City", "State", "Postal Code",
                            "Country", "Full Address", "Geocoding Status">>,
              nrows |-> Len(pd["Status"]),
              ids |-> [i \in 1..Len(table) |-> i],
              data |-> pd]

\* ------------------------------------------------------------ inputs
\* Rows an uploaded table is made of: a valid numeric pair, a valid pair
\* read as text that sits on the range bounds, an out-of-range pair, an
\* unparsable latitude, and a row with both cells missing.
RowLagos == [lat |-> Num(65000), lon |-> Num(33000)]
RowBound == [lat |-> Str(<<"9", "0">>), lon |-> Str(<<"1", "8", "0">>)]
RowFar == [lat |-> Num(9990000), lon |-> Num(0)]
RowText == [lat |-> Str(<<"a", "b", "c">>), lon |-> Num(0)]
RowMissing == [lat |-> NaN, lon |-> NaN]
RowInputs == {RowLagos, RowBound, RowFar, RowText, RowMissing}

Tables == UNION {[1..n -> RowInputs] : n \in 0..MaxRows}
SessionRows == {RowLagos, RowFar, RowMissing}
SessionTables == UNION {[1..n -> SessionRows] : n \in 0..MaxSessionRows}

\* Column names of the uploaded file as the three select boxes hold them.
ColumnChoices == {[id |-> "id", lat |-> "lat", lon |-> "lon"],
                  [id |-> "id", lat |-> "Latitude", lon |-> "Longitude"]}

\* The environment of the process: no key set, or the LocationIQ key set.
Environments == {[p \in KeyedProviders |-> ""],
                 [p \in KeyedProviders |-> IF p = "LocationIQ" THEN "env-key" ELSE ""]}
TypedKeys == {"", "typed-key"}

\* ------------------------------------------------------------- state
VARIABLES
    env,              \* os.environ: provider -> API key, "" when unset
    api_provider,     \* the sidebar radio
    key_input,        \* the password text inputs, one per keyed provider
    api_client,       \* st.session_state.api_client
    uploaded,         \* a file is uploaded
    df,               \* the loaded table
    cols,             \* id_col, lat_col, lon_col
    pc,               \* "idle", "loop", "done", "crashed", "stopped"
    idx,              \* rows the loop has handled
    processed_data,   \* the accumulator
    counts,           \* processed_count, error_count, skipped_count
    calls,            \* provider invocations of the running batch
    since_call,       \* ticks since the last invocation began, -1 if none
    processed_df      \* st.session_state.processed_df

vars == <<env, api_provider, key_input, api_client, uploaded, df, cols, pc, idx,
          processed_data, counts, calls, since_call, processed_df>>

config == <<env, api_provider, key_input, api_client>>
file == <<uploaded, df, cols>>
batch == <<idx, processed_data, counts, calls, since_call>>

NoCounts == [processed |-> 0, error |-> 0, skipped |-> 0]

\* ------------------------------------------------- sidebar (every run)
\* Lines 278-287: the key of the selected provider.
ApiKey(provider, environ, inputs) ==
    IF provider \in KeyedProviders
    THEN IF environ[provider] # "" THEN environ[provider] ELSE inputs[provider]
    ELSE ""

\* Lines 291-295: the client is replaced only when a key is present or the
\* provider needs none; otherwise the previous run's client stays.
InitClient(provider, api_key, previous) ==
    IF api_key # "" \/ provider = "OpenStreetMap (Nominatim)"
    THEN IF get_client(provider, api_key) = Unsupported
         THEN previous ELSE get_client(provider, api_key)
    ELSE previous

\* The local variables of a finished or stopped run are gone in the next.
FreshRun ==
    /\ idx' = 0
    /\ processed_data' = initialize_processed_data
    /\ counts' = NoCounts
    /\ calls' = <<>>
    /\ since_call' = -1

Init ==
    /\ env \in Environments
    /\ api_provider = PROVIDERS[1]
    /\ key_input = [p \in KeyedProviders |-> ""]
    /\ api_client = InitClient(api_provider, ApiKey(api_provider, env, key_input), NoClient)
    /\ uploaded = FALSE
    /\ df = <<>>
    /\ cols = [id |-> "id", lat |-> "lat", lon |-> "lon"]
    /\ pc = "idle"
    /\ idx = 0
    /\ processed_data = initialize_processed_data
    /\ counts = NoCounts
    /\ calls = <<>>
    /\ since_call = -1
    /\ processed_df = NoFrame

\* ------------------------------------------------------------ actions
SelectProvider(p) ==
    /\ pc # "loop"
    /\ p # api_provider
    /\ api_provider' = p
    /\ api_client' = InitClient(p, ApiKey(p, env, key_input), api_client)
    /\ pc' = "idle"
    /\ FreshRun
    /\ UNCHANGED <<env, key_input, file, processed_df>>

\* The text input is drawn only for a keyed provider without an
\* environment key.
EnterKey(k) ==
    /\ pc # "loop"
    /\ api_provider \in KeyedProviders
    /\ env[api_provider] = ""
    /\ k # key_input[api_provider]
    /\ key_input' = [key_input EXCEPT ![api_provider] = k]
    /\ api_client' = InitClient(api_provider, ApiKey(api_provider, env, key_input'), api_client)
    /\ pc' = "idle"
    /\ FreshRun
    /\ UNCHANGED <<env, api_provider, file, processed_df>>

Upload(table, names) ==
    /\ pc # "loop"
    /\ <<table, names>> # <<df, cols>> \/ ~uploaded
    /\ uploaded' = TRUE
    /\ df' = table
    /\ cols' = names
    /\ api_client' = InitClient(api_provider, ApiKey(api_provider, env, key_input), api_client)
    /\ pc' = "idle"
    /\ FreshRun
    /\ UNCHANGED <<env, api_provider, key_input, processed_df>>

\* A start guard that only looks for some client in the session.
ConfigurationBlocks_clientOnly(provider, api_key, client) == client = NoClient

\* Lines 332-337.
ConfigurationBlocks(provider, api_key, client) ==
    \/ provider \in KeyedProviders /\ api_key = ""
    \/ client = NoClient

\* Lines 331-345: the guards of the start button.
PressStart ==
    /\ pc # "loop"
    /\ uploaded
    /\ LET api_key == ApiKey(api_provider, env, key_input)
           client == InitClient(api_provider, api_key, api_client)
       IN  /\ api_client' = client
           /\ pc' = IF ConfigurationBlocks(api_provider, api_key, client) THEN "stopped"
                    ELSE IF validate_coordinates(df) = 0 THEN "stopped"
                    ELSE "loop"
    /\ FreshRun
    /\ UNCHANGED <<env, api_provider, key_input, file, processed_df>>

\* Lines 363-366: the row is rejected; no provider call is made.
RejectRow(status) ==
    /\ processed_data' = AppendRecord(processed_data, get_coordinate_error_record(status))
    /\ counts' = [counts EXCEPT !.skipped = @ + 1]
    /\ UNCHANGED <<calls, since_call>>

\* Lines 368-381: the provider is called at once (nothing waits before the
\* call) and answers after latency ticks; the row is recorded as a success
\* or as an error.
GeocodeRow(row, http, latency) ==
    LET result == reverse_geocode(api_client, row.lat, row.lon, http)
    IN  /\ calls' = Append(calls, [row |-> idx + 1, lat |-> row.lat, lon |-> row.lon,
                                   client |-> api_client, result |-> result])
        /\ since_call' = latency
        /\ IF result.ok
           THEN /\ processed_data' = AppendSuccess(processed_data, row.lat, row.lon, result)
                /\ counts' = [counts EXCEPT !.processed = @ + 1]
           ELSE /\ processed_data' = AppendRecord(processed_data, get_error_record)
                /\ counts' = [counts EXCEPT !.error = @ + 1]

\* A loop that keeps the outcome of every coordinate it has queried and
\* replays it for a later row with the same coordinate.
LoopStep_cached(http, latency) ==
    /\ pc = "loop"
    /\ idx < Len(df)
    /\ LET row == df[idx + 1]
           v == validate_coordinate_values(row.lat, row.lon)
           seen == {k \in 1..Len(calls) : calls[k].lat = row.lat /\ calls[k].lon = row.lon}
       IN  IF ~v.is_valid THEN RejectRow(v.status)
           ELSE IF seen = {} THEN GeocodeRow(row, http, latency)
           ELSE LET stored == calls[CHOOSE k \in seen : TRUE].result
                IN  /\ processed_data' =
                           IF stored.ok
                           THEN AppendSuccess(processed_data, row.lat, row.lon, stored)
                           ELSE AppendRecord(processed_data, get_error_record)
                    /\ counts' = IF stored.ok THEN [counts EXCEPT !.processed = @ + 1]
                                 ELSE [counts EXCEPT !.error = @ + 1]
                    /\ UNCHANGED <<calls, since_call>>
    /\ idx' = idx + 1
    /\ UNCHANGED <<config, file, pc, processed_df>>

\* A loop that queries the provider before looking at the validator's
\* verdict.
LoopStep_unchecked(http, latency) ==
    /\ pc = "loop"
    /\ idx < Len(df)
    /\ GeocodeRow(df[idx + 1], http, latency)
    /\ idx' = idx + 1
    /\ UNCHANGED <<config, file, pc, processed_df>>

\* Lines 359-384: one iteration of the loop.
LoopStep(http, latency) ==
    /\ pc = "loop"
    /\ idx < Len(df)
    /\ LET row == df[idx + 1]
           v == validate_coordinate_values(row.lat, row.lon)
       IN  IF ~v.is_valid THEN RejectRow(v.status) ELSE GeocodeRow(row, http, latency)
    /\ idx' = idx + 1
    /\ UNCHANGED <<config, file, pc, processed_df>>

\* Lines 386-387: the result table, or the ValueError that ends the run.
Finish ==
    /\ pc = "loop"
    /\ idx = Len(df)
    /\ LET result_df == prepare_output_dataframe(df, processed_data, cols)
       IN  IF result_df.built
           THEN pc' = "done" /\ processed_df' = result_df
           ELSE pc' = "crashed" /\ UNCHANGED processed_df
    /\ UNCHANGED <<config, file, batch>>

Next ==
    \/ \E p \in ProviderSet : SelectProvider(p)
    \/ \E k \in TypedKeys : EnterKey(k)
    \/ \E t \in SessionTables, n \in ColumnChoices : Upload(t, n)
    \/ PressStart
    \/ \E h \in HttpOutcomes, d \in 1..MaxLatency : LoopStep(h, d)
    \/ Finish

Spec == Init /\ [][Next]_vars

\* The batch on its own: a file is loaded whose columns are named apart from
\* the output's and a provider is configured (one that needs a typed key, or
\* the key-less one); the start button is pressed and the loop runs.
InitBatch ==
    /\ env = [p \in KeyedProviders |-> ""]
    /\ api_provider \in {"Google Maps", "OpenStreetMap (Nominatim)"}
    /\ key_input = [p \in KeyedProviders |-> IF p = api_provider THEN "typed-key" ELSE ""]
    /\ api_client = InitClient(api_provider, ApiKey(api_provider, env, key_input), NoClient)
    /\ uploaded = TRUE
    /\ df \in Tables
    /\ cols = [id |-> "id", lat |-> "lat", lon |-> "lon"]
    /\ pc = "idle"
    /\ idx = 0
    /\ processed_data = initialize_processed_data
    /\ counts = NoCounts
    /\ calls = <<>>
    /\ since_call = -1
    /\ processed_df = NoFrame

NextBatch ==
    \/ PressStart
    \/ \E h \in HttpOutcomes, d \in 1..MaxLatency : LoopStep(h, d)
    \/ Finish

SpecBatch == InitBatch /\ [][NextBatch]_vars

\* The validator on its own: a one-row table whose two cells are drawn from
\* every kind of raw value, sent through the loop with the key-less provider.
RawValues ==
    {Num(-1800001), Num(-1800000), Num(-900001), Num(-900000), Num(0),
     Num(900000), Num(900001), Num(1800000), Num(1800001),
     NaN, PosInf, NegInf, PyNone, BigInt,
     Str(<<"a", "b", "c">>), Str(<<>>), Str(<<" ">>), Str(<<"-">>), Str(<<".">>),
     Str(<<"9", "0">>), Str(<<"9", "0", ".", "0", "0", "0", "1">>),
     Str(<<"-", "9", "0", ".", "0">>), Str(<<" ", "4", "5", ".", "5", " ">>),
     Str(<<"+", "1", "8", "0">>), Str(<<"1", "8", "0", ".", "0", "0", "0", "1">>),
     Str(<<"9", " ", "0">>), Str(<<"1", ".", "2", ".", "3">>),
     Str(<<"n", "a", "n">>), Str(<<"N", "a", "N">>), Str(<<"-", "i", "n", "f">>)}

InitValidator ==
    /\ env = [p \in KeyedProviders |-> ""]
    /\ api_provider = PROVIDERS[3]
    /\ key_input = [p \in KeyedProviders |-> ""]
    /\ api_client = InitClient(api_provider, ApiKey(api_provider, env, key_input), NoClient)
    /\ uploaded = TRUE
    /\ df \in {<<[lat |-> a, lon |-> b]>> : a \in RawValues, b \in RawValues}
    /\ cols = [id |-> "id", lat |-> "lat", lon |-> "lon"]
    /\ pc = "idle"
    /\ idx = 0
    /\ processed_data = initialize_processed_data
    /\ counts = NoCounts
    /\ calls = <<>>
    /\ since_call = -1
    /\ processed_df = NoFrame

SpecValidator == InitValidator /\ [][NextBatch]_vars

\* ------------------------------------------------------------ properties
Started == pc \in {"loop", "done", "crashed"}
Ended == pc \in {"done", "crashed"}

\* The verdict the loop acted on for handled row j, read off the status it
\* recorded: a row that went to the provider was Valid.
Verdict(j) ==
    IF processed_data["Status"][j] \in {"Success", "Error"} THEN "Valid"
    ELSE processed_data["Status"][j]

\* The class of a row as the claims word it: Invalid when a cell does not
\* parse, Valid when both are finite and within the closed ranges, Out of
\* range otherwise.
InsideClosed(f, lo, hi) == f.cls = "finite" /\ lo <= f.val /\ f.val <= hi
Classified(row) ==
    LET flat == PyFloat(row.lat)
        flon == PyFloat(row.lon)
    IN  IF ~flat.ok \/ ~flon.ok THEN "Invalid"
        ELSE IF InsideClosed(flat, -900000, 900000) /\ InsideClosed(flon, -1800000, 1800000)
            THEN "Valid" ELSE "Out of range"

CallsForRow(j) == {k \in 1..Len(calls) : calls[k].row = j}
CallsForCoordinate(lat, lon) ==
    {k \in 1..Len(calls) : calls[k].lat = lat /\ calls[k].lon = lon}
RowsWithCoordinate(lat, lon) ==
    {j \in 1..idx : df[j].lat = lat /\ df[j].lon = lon}

\* C1: a started batch that has come to its end has produced a result table
\* with exactly one row per input row, in input order (stated for a file
\* whose columns are named apart from the output's).
C1_RowCountInvariance ==
    (Ended /\ cols.lat = "lat") =>
        /\ pc = "done"
        /\ processed_df.built
        /\ processed_df.nrows = Len(df)
        /\ processed_df.ids = [i \in 1..Len(df) |-> i]

C3_FailureIsolation ==
    (cols.lat = "lat" /\ \E k \in 1..Len(calls) : ~calls[k].result.ok) =>
        /\ pc # "crashed"
        /\ \A k \in 1..Len(calls) :
               calls[k].result.ok =>
                   LET j == calls[k].row
                   IN  /\ Len(processed_data["Latitude"]) >= j
                       /\ Len(processed_data["Longitude"]) >= j
                       /\ processed_data["Latitude"][j] = df[j].lat
                       /\ processed_data["Longitude"][j] = df[j].lon
                       /\ processed_data["Full Address"][j] = calls[k].result.address

\* C4: a provider invocation that follows another one of the same batch
\* begins at least RATE_LIMIT seconds after that one began.
C4_Pacing ==
    [][(calls # <<>> /\ Len(calls') = Len(calls) + 1)
           => since_call >= RATE_LIMIT * TicksPerSecond]_vars

\* C5: a row the validator rejects causes no provider invocation, and the
\* invocations of a batch never outnumber its Valid rows.
C5_RejectionShortCircuit ==
    /\ \A k \in 1..Len(calls) : Classified(df[calls[k].row]) = "Valid"
    /\ \A j \in 1..idx : Classified(df[j]) # "Valid" => CallsForRow(j) = {}
    /\ Len(calls) <= Cardinality({j \in 1..Len(df) : Classified(df[j]) = "Valid"})
    /\ (calls = <<>>) => since_call = -1

C5_Witness ==
    /\ idx = 2
    /\ Classified(df[1]) = "Out of range"
    /\ Classified(df[2]) = "Invalid"
    /\ calls = <<>>
    /\ counts.skipped = 2

\* C6: with the provider configured, answering every call and the file's
\* columns named apart from the output's, no mix of unparsable, missing or
\* out-of-range coordinates stops the batch or suppresses its output: the
\* start is not refused and the run ends with a row for every input row.
C6_InputErrorsNeverFatal ==
    (/\ Len(df) > 0
     /\ cols.lat = "lat"
     /\ \A k \in 1..Len(calls) : calls[k].result.ok
     /\ pc \in {"stopped", "done", "crashed"}) =>
        /\ pc = "done"
        /\ processed_df.nrows = Len(df)

\* C7: when the selected provider needs a key and none is supplied, or the
\* session holds no client, no row is processed and no provider is called;
\* a loop that was entered runs with a client of the selected provider that
\* carries the supplied key.
C7_ConfigurationBlocksStart ==
    LET needsKey == api_provider \in {"LocationIQ", "Google Maps"}
        noKey == needsKey /\ env[api_provider] = "" /\ key_input[api_provider] = ""
        class == CASE api_provider = "LocationIQ" -> "LocationIQClient"
                   [] api_provider = "Google Maps" -> "GoogleMapsClient"
                   [] OTHER -> "OpenStreetMapClient"
    IN  /\ (noKey \/ api_client = NoClient) =>
               (~Started /\ idx = 0 /\ calls = <<>>)
        /\ Started =>
               /\ api_client.cls = class
               /\ needsKey => api_client.api_key \in
                                  {env[api_provider], key_input[api_provider]} \ {""}
        /\ \A k \in 1..Len(calls) : calls[k].client = api_client

\* The start was refused for a missing key while the session still held the
\* client of the provider selected before.
C7_Witness ==
    /\ pc = "stopped"
    /\ api_provider = "Google Maps"
    /\ env["Google Maps"] = "" /\ key_input["Google Maps"] = ""
    /\ api_client.cls = "LocationIQClient"
    /\ Len(df) = 1 /\ Classified(df[1]) = "Valid"

\* C8: the validator classifies every pair of raw cells: Invalid when a cell
\* does not parse, Out of range when both parse and one is not within its
\* closed range, Valid otherwise; 90/180 and -90/-180 are Valid.
C8_ValidatorTotal ==
    idx >= 1 =>
        /\ Len(processed_data["Status"]) = idx
        /\ \A j \in 1..idx :
               /\ Verdict(j) \in {"Valid", "Invalid", "Out of range"}
               /\ Verdict(j) = Classified(df[j])
               /\ (PyFloat(df[j].lat) = Finite(900000) /\ PyFloat(df[j].lon) = Finite(1800000))
                      => Verdict(j) = "Valid"
               /\ (PyFloat(df[j].lat) = Finite(-900000) /\ PyFloat(df[j].lon) = Finite(-1800000))
                      => Verdict(j) = "Valid"
               /\ PyFloat(df[j].lat) = Finite(900001) => Verdict(j) # "Valid"
               /\ PyFloat(df[j].lon) = Finite(1800001) => Verdict(j) # "Valid"
               /\ (df[j].lat = Str(<<"a", "b", "c">>) \/ df[j].lat = PyNone)
                      => Verdict(j) = "Invalid"

C8_Witness ==
    /\ idx = 1
    /\ df[1].lat = Str(<<"-", "9", "0", ".", "0">>)
    /\ df[1].lon = Num(-1800000)
    /\ Verdict(1) = "Valid"

\* C9: every handled row has exactly one status; it is Success exactly when
\* the row was Valid and the provider gave a record, Error when the row was
\* Valid and the provider gave null, and the validator's status otherwise;
\* every row that is not a success has empty address fields and the state
\* 'Not Available'.
C9_OneStatusPerRow ==
    /\ Len(processed_data["Status"]) = idx
    /\ \A c \in AddressColumns : Len(processed_data[c]) = idx
    /\ \A j \in 1..idx :
           LET st == processed_data["Status"][j]
               gotRecord == \E k \in CallsForRow(j) : calls[k].result.ok
               class == Classified(df[j])
           IN  /\ st \in {"Success", "Error", "Invalid", "Out of range"}
               /\ (st = "Success") <=> (class = "Valid" /\ gotRecord)
               /\ (class = "Valid" /\ ~gotRecord) => st = "Error"
               /\ class # "Valid" => st = class
               /\ st # "Success" =>
                      /\ processed_data["State"][j] = "Not Available"
                      /\ \A c \in AddressColumns \ {"State"} : processed_data[c][j] = ""

C9_Witness ==
    /\ idx = 3
    /\ processed_data["Status"] = <<"Out of range", "Error", "Success">>
    /\ processed_data["State"] = <<"Not Available", "Not Available", "Lagos">>

\* C10: after every iteration each column of the accumulator has one entry
\* per handled row.
C10_ColumnAlignment ==
    Started => \A c \in COLUMNS : Len(processed_data[c]) = idx

====
